---------------------------- MODULE Spec2Model ----------------------------
(***************************************************************************)
(* A model of futures-timer's adapters (src/src/ext.rs) and of its helper  *)
(* thread (src/src/global.rs).  Timer, TimerHandle and Delay are defined   *)
(* in the crate's lib.rs; here they follow the design document (sections   *)
(* 4.1 to 4.4): an inbox of intents, a deadline store owned by the helper  *)
(* thread, and a Delay that registers itself on its first pending poll.    *)
(***************************************************************************)
EXTENDS Integers, Sequences, FiniteSets, TLC

\* ------------------------------------------------------------------ bounds
MaxTime == 2
MaxDur == 2
NumDelays == 2
MaxChain == 3
MaxItems == 1

Ids == 1..NumDelays
Durs == 1..MaxDur
NoTime == -1

\* No redundant wake-up is under observation.
NoWake == [on |-> FALSE]

VARIABLES
    now,        \* Instant::now(), a monotonic clock
    delay,      \* the Delay futures: id -> [made, at, armed, epoch]
    inbox,      \* the Timer's hand-off list of intents, oldest first
    heap,       \* the Timer's deadline store, owned by the helper thread
    nseq,       \* insertion counter of the store (tie-break)
    fired,      \* log of the wake signals the helper thread invoked
    notified,   \* tasks (by Delay id) woken and not yet polled again
    dpc,        \* the helper thread's position in run()
    token,      \* the helper thread's park token (set by unpark)
    sleepUntil, \* the instant at which a park_timeout elapses
    early,      \* an unpark has ended a park_timeout before its instant
    done,       \* HelperThread.done, the AtomicBool shared with run()
    hpc,        \* the HelperThread value: its thread field and drop position
    tmo,        \* the Timeout<F> future
    stm,        \* the TimeoutStream<S> stream
    errv,       \* a TimeoutError<E> value and the result of an operation on it
    owed,       \* tasks that pushed an intent and have not yet woken the helper thread
    bad,        \* Delays whose task's wake signal panics when invoked
    rw          \* the redundant wake-up under observation, if any

engineVars == <<now, delay, inbox, heap, nseq, fired, notified, dpc, token,
                sleepUntil, early, done, hpc>>
vars == <<now, delay, inbox, heap, nseq, fired, notified, dpc, token,
          sleepUntil, early, done, hpc, tmo, stm, errv, owed, bad, rw>>

\* ------------------------------------------------- Delay (design, 4.2/4.3)
NoDelay == [made |-> FALSE, at |-> 0, armed |-> FALSE, epoch |-> 0]

\* Delay::new(dur) / Delay::new_at(at): no registration until the first poll.
DelayNewAt(id, at) ==
    delay' = [delay EXCEPT ![id] = [made |-> TRUE, at |-> at, armed |-> FALSE,
                                    epoch |-> delay[id].epoch]]

\* Delay::poll's result: ready as soon as the deadline is not after now.
DelayReady(id) == delay[id].at <= now

\* TimerHandle submit: the intent is pushed, then the helper thread is woken.
Submit(intent) ==
    /\ inbox' = Append(inbox, intent)
    /\ token' = TRUE

\* Delay::poll's effect: an unready, unarmed Delay registers itself.
DelayPoll(id) ==
    IF DelayReady(id) \/ delay[id].armed
    THEN UNCHANGED <<delay, inbox, token>>
    ELSE /\ delay' = [delay EXCEPT ![id].armed = TRUE]
         /\ Submit([op |-> "insert", id |-> id, at |-> delay[id].at,
                    epoch |-> delay[id].epoch])

\* Delay::reset(dur): cancel the registration, bump the epoch, new deadline.
DelayReset(id, dur) ==
    /\ delay' = [delay EXCEPT ![id] = [made |-> TRUE, at |-> now + dur,
                                       armed |-> FALSE, epoch |-> @.epoch + 1]]
    /\ IF delay[id].armed
       THEN Submit([op |-> "cancel", id |-> id, at |-> delay[id].at,
                    epoch |-> delay[id].epoch])
       ELSE UNCHANGED <<inbox, token>>

\* ---------------------------------------------- Timer (design, 4.1 and 4.4)
ApplyIntent(h, n, i) ==
    IF i.op = "insert"
    THEN h \cup {[id |-> i.id, at |-> i.at, epoch |-> i.epoch, seq |-> n]}
    ELSE {e \in h : ~(e.id = i.id /\ e.epoch = i.epoch)}

RECURSIVE DrainInbox(_, _, _)
\* Timer::poll: every intent of the inbox, in order, into the store.
DrainInbox(inb, h, n) ==
    IF inb = <<>> THEN [heap |-> h, nseq |-> n]
    ELSE DrainInbox(Tail(inb), ApplyIntent(h, n, Head(inb)),
                    IF Head(inb).op = "insert" THEN n + 1 ELSE n)

\* The store ordered by insertion alone.
Earlier_ByInsertion(a, b) == a.seq < b.seq

\* The store's order: by deadline, ties by insertion.
Earlier(a, b) == a.at < b.at \/ (a.at = b.at /\ a.seq < b.seq)

First(s) == CHOOSE e \in s : \A o \in s \ {e} : Earlier(e, o)

RECURSIVE InOrder(_)
InOrder(s) == IF s = {} THEN <<>> ELSE <<First(s)>> \o InOrder(s \ {First(s)})

\* drain_ready(now): the entries whose deadline is not after t, in deadline
\* order, ties in insertion order.
DrainReady(h, t) == InOrder({e \in h : e.at <= t})

\* An entry of an older epoch is a stale fire: its wake signal is not invoked.
Live(e) == delay[e.id].made /\ delay[e.id].epoch = e.epoch

RECURSIVE Wakes(_)
\* The wake signals invoked for the entries es, with the clock at each.
Wakes(es) ==
    IF es = <<>> THEN <<>>
    ELSE (IF Live(Head(es))
          THEN <<[id |-> Head(es).id, at |-> Head(es).at, seq |-> Head(es).seq,
                  time |-> now, early |-> early]>>
          ELSE <<>>) \o Wakes(Tail(es))

\* Timer::next_event: the earliest deadline of the store, if any.
NextEvent(h) ==
    IF h = {} THEN NoTime ELSE (CHOOSE e \in h : \A o \in h : e.at <= o.at).at

\* ------------------------------------------------------- global.rs: run()
\* run() leaving its loop while the flag is clear.
RunLoop_Negated ==
    /\ dpc = "loop"
    /\ dpc' = IF ~done THEN "exited" ELSE "poll"
    /\ UNCHANGED <<now, delay, inbox, heap, nseq, fired, notified, token,
                   sleepUntil, done, hpc, tmo, stm, errv, early, owed, bad,
                   rw>>

\* while !done.load(SeqCst)
RunLoop ==
    /\ dpc = "loop"
    /\ dpc' = IF done THEN "exited" ELSE "poll"
    /\ UNCHANGED <<now, delay, inbox, heap, nseq, fired, notified, token,
                   sleepUntil, done, hpc, tmo, stm, errv, early, owed, bad,
                   rw>>

\* drop(timer.poll(cx))
RunPoll ==
    /\ dpc = "poll"
    /\ heap' = DrainInbox(inbox, heap, nseq).heap
    /\ nseq' = DrainInbox(inbox, heap, nseq).nseq
    /\ inbox' = <<>>
    /\ dpc' = "advance"
    /\ UNCHANGED <<now, delay, fired, notified, token, sleepUntil, done, hpc,
                   tmo, stm, errv, early, owed, bad, rw>>

\* Timer::advance_to(t): fire what drain_ready(t) returns, in its order.
AdvanceTo(t) ==
    /\ fired' = fired \o Wakes(DrainReady(heap, t))
    /\ notified' = notified \cup
                   {DrainReady(heap, t)[i].id :
                      i \in {k \in 1..Len(DrainReady(heap, t)) :
                               Live(DrainReady(heap, t)[k])}}
    /\ heap' = heap \ {DrainReady(heap, t)[i] : i \in 1..Len(DrainReady(heap, t))}

\* run() firing up to the next event's instant, not up to now.
RunAdvance_ToNextEvent ==
    /\ dpc = "advance"
    /\ AdvanceTo(NextEvent(heap))
    /\ dpc' = "next"
    /\ UNCHANGED <<now, delay, inbox, nseq, token, sleepUntil, early, done, hpc,
                   tmo, stm, errv, owed, bad, rw>>

\* Some wake signal invoked for the entries es panics.
Panics(es) == \E i \in 1..Len(es) : Live(es[i]) /\ es[i].id \in bad

RECURSIVE UpToPanic(_)
\* The entries of es up to the first whose wake signal panics.
UpToPanic(es) ==
    IF es = <<>> THEN <<>>
    ELSE IF Live(Head(es)) /\ Head(es).id \in bad THEN <<Head(es)>>
    ELSE <<Head(es)>> \o UpToPanic(Tail(es))

\* advance_to(t) left by the panic of a wake signal: the entries before it
\* have been fired, the ones after it are still in the store.
AdvanceUnwound(t) ==
    LET es == UpToPanic(DrainReady(heap, t))
        pre == SubSeq(es, 1, Len(es) - 1)
    IN /\ fired' = fired \o Wakes(pre)
       /\ notified' = notified \cup
                      {pre[i].id : i \in {k \in 1..Len(pre) : Live(pre[k])}}
       /\ heap' = heap \ {es[i] : i \in 1..Len(es)}

\* timer.get_mut().advance(): advance_to(Instant::now()). run() has nothing
\* around the call that would stop a panic: one that leaves advance unwinds
\* run() and ends the thread. Whether advance lets it out is the timer's
\* business, so both outcomes are taken.
RunAdvance ==
    /\ dpc = "advance"
    /\ IF Panics(DrainReady(heap, now))
       THEN \E caught \in BOOLEAN :
              IF caught THEN AdvanceTo(now) /\ dpc' = "next"
              ELSE AdvanceUnwound(now) /\ dpc' = "panicked"
       ELSE AdvanceTo(now) /\ dpc' = "next"
    /\ UNCHANGED <<now, delay, inbox, nseq, token, sleepUntil, early, done, hpc,
                   tmo, stm, errv, owed, bad, rw>>

\* run() parking without a timeout whatever the next event is.
RunNextEvent_ParkOnly ==
    /\ dpc = "next"
    /\ dpc' = "park"
    /\ sleepUntil' = NoTime
    /\ UNCHANGED <<now, delay, inbox, heap, nseq, fired, notified, token, done,
                   hpc, tmo, stm, errv, early, owed, bad, rw>>

\* run() discarding a pending unpark before it parks.
RunNextEvent_ClearsToken ==
    /\ dpc = "next"
    /\ IF NextEvent(heap) = NoTime
       THEN dpc' = "park" /\ sleepUntil' = NoTime /\ token' = FALSE
       ELSE IF now < NextEvent(heap)
            THEN dpc' = "park_timeout" /\ sleepUntil' = NextEvent(heap)
                 /\ token' = FALSE
            ELSE dpc' = "loop" /\ sleepUntil' = NoTime /\ token' = token
    /\ UNCHANGED <<now, delay, inbox, heap, nseq, fired, notified, done, hpc,
                   tmo, stm, errv, early, owed, bad, rw>>

\* run() sleeping toward the next event without comparing it with now.
RunNextEvent_NoNowCheck ==
    /\ dpc = "next"
    /\ IF NextEvent(heap) = NoTime
       THEN dpc' = "park" /\ sleepUntil' = NoTime
       ELSE dpc' = "park_timeout" /\ sleepUntil' = NextEvent(heap)
    /\ UNCHANGED <<now, delay, inbox, heap, nseq, fired, notified, token, done,
                   hpc, tmo, stm, errv, early, owed, bad, rw>>

\* run() reading the done flag before it parks, and returning if it is set.
RunNextEvent_ExitsOnDone ==
    /\ dpc = "next"
    /\ IF done
       THEN dpc' = "exited" /\ sleepUntil' = NoTime
       ELSE IF NextEvent(heap) = NoTime
            THEN dpc' = "park" /\ sleepUntil' = NoTime
            ELSE IF now < NextEvent(heap)
                 THEN dpc' = "park_timeout" /\ sleepUntil' = NextEvent(heap)
                 ELSE dpc' = "loop" /\ sleepUntil' = NoTime
    /\ UNCHANGED <<now, delay, inbox, heap, nseq, fired, notified, token, done,
                   hpc, tmo, stm, errv, early, owed, bad, rw>>

\* match timer.get_mut().next_event() { Some(when) => ..., None => park() }
RunNextEvent ==
    /\ dpc = "next"
    /\ IF NextEvent(heap) = NoTime
       THEN dpc' = "park" /\ sleepUntil' = NoTime
       ELSE IF now < NextEvent(heap)
            THEN dpc' = "park_timeout" /\ sleepUntil' = NextEvent(heap)
            ELSE dpc' = "loop" /\ sleepUntil' = NoTime
    /\ UNCHANGED <<now, delay, inbox, heap, nseq, fired, notified, token, done,
                   hpc, tmo, stm, errv, early, owed, bad, rw>>

Parked == dpc \in {"park", "park_timeout"}

\* park / park_timeout returning on the token without consuming it.
ParkUnparked_KeepsToken ==
    /\ Parked /\ token
    /\ dpc' = "loop"
    /\ sleepUntil' = NoTime
    /\ early' = (early \/ (dpc = "park_timeout" /\ now < sleepUntil))
    /\ rw' = IF rw.on /\ rw.iters < 2 THEN [rw EXCEPT !.iters = @ + 1] ELSE rw
    /\ UNCHANGED <<now, delay, inbox, heap, nseq, fired, notified, done, hpc,
                   tmo, stm, errv, owed, bad, token>>

\* park / park_timeout return at once when the token is set, and consume it.
ParkUnparked ==
    /\ Parked /\ token
    /\ token' = FALSE
    /\ dpc' = "loop"
    /\ sleepUntil' = NoTime
    /\ early' = (early \/ (dpc = "park_timeout" /\ now < sleepUntil))
    /\ rw' = IF rw.on /\ rw.iters < 2 THEN [rw EXCEPT !.iters = @ + 1] ELSE rw
    /\ UNCHANGED <<now, delay, inbox, heap, nseq, fired, notified, done, hpc,
                   tmo, stm, errv, owed, bad>>

\* park_timeout returns when its duration has elapsed.
ParkElapsed ==
    /\ dpc = "park_timeout" /\ ~token /\ sleepUntil <= now
    /\ dpc' = "loop"
    /\ sleepUntil' = NoTime
    /\ UNCHANGED <<now, delay, inbox, heap, nseq, fired, notified, token, done,
                   hpc, tmo, stm, errv, early, owed, bad, rw>>

\* std::thread::park may return spuriously.
ParkSpurious ==
    /\ Parked /\ ~token
    /\ dpc' = "loop"
    /\ sleepUntil' = NoTime
    /\ UNCHANGED <<now, delay, inbox, heap, nseq, fired, notified, token, early,
                   done, hpc, tmo, stm, errv, owed, bad, rw>>

Driver ==
    \/ RunLoop \/ RunPoll \/ RunAdvance \/ RunNextEvent
    \/ ParkUnparked \/ ParkElapsed \/ ParkSpurious

\* ------------------------------------------------ global.rs: HelperThread
\* new leaving the helper thread running when it reports a failure.
HelperNew_ThreadLeft ==
    /\ hpc = "none"
    /\ \E ok \in BOOLEAN :
         IF ok THEN hpc' = "owned" /\ dpc' = "loop"
         ELSE hpc' = "failed" /\ dpc' = "loop"
    /\ done' = FALSE
    /\ UNCHANGED <<now, delay, inbox, heap, nseq, fired, notified, token,
                   sleepUntil, tmo, stm, errv, early, owed, bad, rw>>

\* HelperThread::new: the spawn may fail, and then nothing is returned.
HelperNew ==
    /\ hpc = "none"
    /\ \E ok \in BOOLEAN :
         IF ok THEN hpc' = "owned" /\ dpc' = "loop"
         ELSE hpc' = "failed" /\ dpc' = "none"
    /\ done' = FALSE
    /\ UNCHANGED <<now, delay, inbox, heap, nseq, fired, notified, token,
                   sleepUntil, tmo, stm, errv, early, owed, bad, rw>>

\* forget asking the helper thread to stop.
HelperForget_SetsDone ==
    /\ hpc = "owned"
    /\ hpc' = "forgotten"
    /\ done' = TRUE
    /\ UNCHANGED <<now, delay, inbox, heap, nseq, fired, notified, dpc, token,
                   sleepUntil, tmo, stm, errv, early, owed, bad, rw>>

\* HelperThread::forget: self.thread.take(), then drop finds None.
HelperForget ==
    /\ hpc = "owned"
    /\ hpc' = "forgotten"
    /\ UNCHANGED <<now, delay, inbox, heap, nseq, fired, notified, dpc, token,
                   sleepUntil, done, tmo, stm, errv, early, owed, bad, rw>>

\* drop: self.thread.take() is Some(thread)
DropTake ==
    /\ hpc = "owned"
    /\ hpc' = "drop_store"
    /\ UNCHANGED <<now, delay, inbox, heap, nseq, fired, notified, dpc, token,
                   sleepUntil, done, tmo, stm, errv, early, owed, bad, rw>>

\* self.done.store(true, SeqCst)
DropStore ==
    /\ hpc = "drop_store"
    /\ done' = TRUE
    /\ hpc' = "drop_unpark"
    /\ UNCHANGED <<now, delay, inbox, heap, nseq, fired, notified, dpc, token,
                   sleepUntil, tmo, stm, errv, early, owed, bad, rw>>

\* drop joining the helper thread without waking it.
DropUnpark_None ==
    /\ hpc = "drop_unpark"
    /\ hpc' = "drop_join"
    /\ UNCHANGED <<now, delay, inbox, heap, nseq, fired, notified, dpc, token,
                   sleepUntil, done, tmo, stm, errv, early, owed, bad, rw>>

\* thread.thread().unpark()
DropUnpark ==
    /\ hpc = "drop_unpark"
    /\ token' = TRUE
    /\ hpc' = "drop_join"
    /\ UNCHANGED <<now, delay, inbox, heap, nseq, fired, notified, dpc,
                   sleepUntil, done, tmo, stm, errv, early, owed, bad, rw>>

\* drop returning without waiting for the helper thread.
DropJoin_NoWait ==
    /\ hpc = "drop_join"
    /\ hpc' = "dropped"
    /\ UNCHANGED <<now, delay, inbox, heap, nseq, fired, notified, dpc, token,
                   sleepUntil, done, tmo, stm, errv, early, owed, bad, rw>>

\* drop(thread.join())
DropJoin ==
    /\ hpc = "drop_join"
    /\ dpc \in {"exited", "panicked"}
    /\ hpc' = "dropped"
    /\ UNCHANGED <<now, delay, inbox, heap, nseq, fired, notified, dpc, token,
                   sleepUntil, done, tmo, stm, errv, early, owed, bad, rw>>

Helper ==
    \/ HelperNew \/ HelperForget \/ DropTake \/ DropStore \/ DropUnpark
    \/ DropJoin

\* --------------------------------------------------- the clock and tasks
Tick ==
    /\ now < MaxTime
    /\ now' = now + 1
    /\ UNCHANGED <<delay, inbox, heap, nseq, fired, notified, dpc, token,
                   sleepUntil, done, hpc, tmo, stm, errv, early, owed, bad,
                   rw>>

HasHandle == hpc \notin {"none", "failed"}

\* A task creates a Delay from a handle of the engine (identities are given
\* out in order).
TaskNew ==
    /\ HasHandle
    /\ \E id \in Ids, d \in 0..MaxDur :
         /\ ~delay[id].made
         /\ \A o \in Ids : o < id => delay[o].made
         /\ DelayNewAt(id, now + d)
    /\ UNCHANGED <<now, inbox, heap, nseq, fired, notified, dpc, token,
                   sleepUntil, done, hpc, tmo, stm, errv, early, owed, bad,
                   rw>>

\* A task whose wake signal panics creates a Delay.
TaskNewPanicking ==
    /\ HasHandle
    /\ \E id \in Ids, d \in 0..MaxDur :
         /\ ~delay[id].made
         /\ \A o \in Ids : o < id => delay[o].made
         /\ DelayNewAt(id, now + d)
         /\ bad' = bad \cup {id}
    /\ UNCHANGED <<now, inbox, heap, nseq, fired, notified, dpc, token,
                   sleepUntil, done, hpc, tmo, stm, errv, early, owed, rw>>

\* A task polls its Delay.
TaskPoll ==
    /\ \E id \in Ids :
         /\ delay[id].made
         /\ DelayPoll(id)
         /\ notified' = notified \ {id}
    /\ UNCHANGED <<now, heap, nseq, fired, dpc, sleepUntil, done, hpc, tmo, stm,
                   errv, early, owed, bad, rw>>

\* The Delay of an adapter, or of a lone task.
TD == 1

\* The one task of an engine under teardown creates its Delay ...
SoleTaskNew ==
    /\ HasHandle
    /\ ~delay[TD].made
    /\ \E d \in 0..MaxDur : DelayNewAt(TD, now + d)
    /\ UNCHANGED <<now, inbox, heap, nseq, fired, notified, dpc, token,
                   sleepUntil, done, hpc, tmo, stm, errv, early, owed, bad,
                   rw>>

\* ... and polls it.
SoleTaskPoll ==
    /\ delay[TD].made
    /\ DelayPoll(TD)
    /\ notified' = notified \ {TD}
    /\ UNCHANGED <<now, heap, nseq, fired, dpc, sleepUntil, done, hpc, tmo, stm,
                   errv, early, owed, bad, rw>>

\* Some thread unparks the helper thread for nothing: no intent is waiting,
\* no shutdown is requested, nothing in the store is due. The helper thread
\* may be parked, or on its way to park (the token is then left over for the
\* park to come).
RedundantUnpark ==
    /\ dpc \in {"loop", "poll", "advance", "next", "park", "park_timeout"}
    /\ ~rw.on /\ ~token /\ ~done
    /\ inbox = <<>>
    /\ \A e \in heap : e.at > now
    /\ token' = TRUE
    /\ rw' = [on |-> TRUE, heap |-> heap, next |-> NextEvent(heap),
              nfired |-> Len(fired), nseq |-> nseq, now |-> now, iters |-> 0]
    /\ UNCHANGED <<now, delay, inbox, heap, nseq, fired, notified, dpc,
                   sleepUntil, done, hpc, tmo, stm, errv, early, owed, bad>>

\* A task polls its Delay, the hand-off seen in its two steps; first the
\* intent is made visible in the inbox ...
TaskPush ==
    /\ \E id \in Ids :
         /\ delay[id].made
         /\ id \notin owed
         /\ notified' = notified \ {id}
         /\ IF DelayReady(id) \/ delay[id].armed
            THEN UNCHANGED <<delay, inbox, owed>>
            ELSE /\ delay' = [delay EXCEPT ![id].armed = TRUE]
                 /\ inbox' = Append(inbox, [op |-> "insert", id |-> id,
                                            at |-> delay[id].at,
                                            epoch |-> delay[id].epoch])
                 /\ owed' = owed \cup {id}
    /\ UNCHANGED <<now, heap, nseq, fired, dpc, token, sleepUntil, done, hpc,
                   tmo, stm, errv, early, bad, rw>>

\* ... and then the helper thread is woken.
TaskUnpark ==
    /\ \E id \in owed : owed' = owed \ {id}
    /\ token' = TRUE
    /\ UNCHANGED <<now, delay, inbox, heap, nseq, fired, notified, dpc,
                   sleepUntil, done, hpc, tmo, stm, errv, early, bad, rw>>

\* ------------------------------------------------ values of the adapters
OkVals == {"v1", "v2"}
\* An error is the chain of its causes: the error itself, then its source,
\* then that one's source.
ErrNames == {"a", "b", "c"}
RECURSIVE Chains(_)
Chains(n) ==
    IF n = 0 THEN {<<>>}
    ELSE Chains(n - 1) \cup
         {<<x>> \o c : x \in ErrNames, c \in {d \in Chains(n - 1) : Len(d) = n - 1}}
Errors == Chains(MaxChain) \ {<<>>}
InnerErrs == {<<"a">>, <<"b", "a">>}

\* enum TimeoutError<E> { TimedOut, InnerError(E) }
TimedOut == [tag |-> "TimedOut", e |-> <<>>]
InnerError(e) == [tag |-> "InnerError", e |-> e]

\* Poll<Result<T, E>> and Poll<Option<Result<T, E>>>
PollPending == [k |-> "Pending", v |-> "", e |-> <<>>]
ReadyOk(v) == [k |-> "Ok", v |-> v, e |-> <<>>]
ReadyErr(e) == [k |-> "Err", v |-> "", e |-> e]
ReadyNone == [k |-> "None", v |-> "", e |-> <<>>]

\* what the inner future / stream may answer to one poll
FutureOutcomes ==
    {PollPending} \cup {ReadyOk(v) : v \in OkVals}
                  \cup {ReadyErr(e) : e \in InnerErrs}
StreamOutcomes == FutureOutcomes \cup {ReadyNone}

\* other.map_err(TimeoutError::InnerError)
MapErr(r) == IF r.k = "Err" THEN ReadyErr(InnerError(r.e)) ELSE r

\* ------------------------------------------------------ ext.rs: Timeout<F>
NoTimeout ==
    [st |-> "none", res |-> PollPending, inner |-> PollPending,
     polledTimer |-> FALSE, pollNow |-> 0, armedBefore |-> FALSE]

\* TryFutureExt::timeout(dur): Timeout { timeout: Delay::new(dur), future }
Timeout_new ==
    /\ tmo.st = "none"
    /\ \E dur \in Durs :
         /\ now + dur <= MaxTime
         /\ DelayNewAt(TD, now + dur)
    /\ tmo' = [NoTimeout EXCEPT !.st = "new"]
    /\ UNCHANGED <<now, inbox, heap, nseq, fired, notified, dpc, token,
                   sleepUntil, done, hpc, stm, errv, early, owed, bad, rw>>

\* TryFutureExt::timeout_at(at): Timeout { timeout: Delay::new_at(at), .. }
Timeout_new_at ==
    /\ tmo.st = "none"
    /\ \E at \in 0..MaxTime : DelayNewAt(TD, at)
    /\ tmo' = [NoTimeout EXCEPT !.st = "new"]
    /\ UNCHANGED <<now, inbox, heap, nseq, fired, notified, dpc, token,
                   sleepUntil, done, hpc, stm, errv, early, owed, bad, rw>>

\* Timeout::poll with the timer polled before the inner future.
Timeout_poll_out_TimerFirst(inner, ready) ==
    IF ready THEN [res |-> ReadyErr(TimedOut), polledTimer |-> TRUE]
    ELSE [res |-> MapErr(inner), polledTimer |-> TRUE]

\* Timeout::poll with the timer's answer read the wrong way round.
Timeout_poll_out_Negated(inner, ready) ==
    IF inner.k # "Pending"
    THEN [res |-> MapErr(inner), polledTimer |-> FALSE]
    ELSE [res |-> IF ~ready THEN ReadyErr(TimedOut) ELSE PollPending,
          polledTimer |-> TRUE]

\* Timeout::poll, as a function of the inner poll and of the timer's state:
\* the result, and whether the timer was polled.
Timeout_poll_out(inner, ready) ==
    IF inner.k # "Pending"
    THEN [res |-> MapErr(inner), polledTimer |-> FALSE]
    ELSE [res |-> IF ready THEN ReadyErr(TimedOut) ELSE PollPending,
          polledTimer |-> TRUE]

\* One poll of the Timeout future whose inner future answers from `inners`.
TimeoutPollStep(inners) ==
    /\ tmo.st \in {"new", "pending"}
    /\ \E inner \in inners :
         LET out == Timeout_poll_out(inner, DelayReady(TD)) IN
         /\ IF out.polledTimer THEN DelayPoll(TD)
            ELSE UNCHANGED <<delay, inbox, token>>
         /\ tmo' = [st |-> IF out.res.k = "Pending" THEN "pending" ELSE "done",
                    res |-> out.res, inner |-> inner,
                    polledTimer |-> out.polledTimer, pollNow |-> now,
                    armedBefore |-> delay[TD].armed]
    /\ notified' = notified \ {TD}
    /\ UNCHANGED <<now, heap, nseq, fired, dpc, sleepUntil, done, hpc, stm,
                   errv, early, owed, bad, rw>>

\* The executor polls the future (a poll may come at any time).
Timeout_poll == TimeoutPollStep(FutureOutcomes)

\* The inner future never completes; the task is polled once, and again
\* whenever its wake signal was invoked.
Timeout_repoll ==
    /\ tmo.st = "new" \/ TD \in notified
    /\ TimeoutPollStep({PollPending})

\* ------------------------------------------------ ext.rs: TimeoutStream<S>
NoStream ==
    [st |-> "none", dur |-> 0, res |-> PollPending, inner |-> PollPending,
     polledTimer |-> FALSE, pollNow |-> 0, atBefore |-> 0, clock |-> 0,
     clockBefore |-> 0, created |-> 0, items |-> 0, timedOut |-> FALSE]

\* TryStreamExt::timeout(dur): TimeoutStream { timeout: Delay::new(dur), dur, .. }
Stream_timeout ==
    /\ stm.st = "none"
    /\ \E dur \in Durs :
         /\ DelayNewAt(TD, now + dur)
         /\ stm' = [NoStream EXCEPT !.st = "new", !.dur = dur, !.clock = now,
                                    !.clockBefore = now, !.created = now]
    /\ UNCHANGED <<now, inbox, heap, nseq, fired, notified, dpc, token,
                   sleepUntil, done, hpc, tmo, errv, early, owed, bad, rw>>

\* poll_next with the timer consulted before the inner stream.
Stream_poll_next_out_TimerFirst(inner, ready) ==
    IF ready
    THEN [res |-> ReadyErr(TimedOut), polledTimer |-> TRUE, reset |-> TRUE]
    ELSE IF inner.k = "Pending"
    THEN [res |-> PollPending, polledTimer |-> TRUE, reset |-> FALSE]
    ELSE [res |-> MapErr(inner), polledTimer |-> TRUE, reset |-> TRUE]

\* poll_next ending the stream when the timer fires.
Stream_poll_next_out_EndsOnTimeout(inner, ready) ==
    IF inner.k \in {"Ok", "Err"}
    THEN [res |-> MapErr(inner), polledTimer |-> FALSE, reset |-> TRUE]
    ELSE IF inner.k = "None"
    THEN [res |-> ReadyNone, polledTimer |-> FALSE, reset |-> TRUE]
    ELSE IF ready
    THEN [res |-> ReadyNone, polledTimer |-> TRUE, reset |-> TRUE]
    ELSE [res |-> PollPending, polledTimer |-> TRUE, reset |-> FALSE]

\* poll_next without the reset of the timer when an item is yielded.
Stream_poll_next_out_NoResetOnItem(inner, ready) ==
    IF inner.k \in {"Ok", "Err"}
    THEN [res |-> MapErr(inner), polledTimer |-> FALSE, reset |-> FALSE]
    ELSE IF inner.k = "None"
    THEN [res |-> ReadyNone, polledTimer |-> FALSE, reset |-> TRUE]
    ELSE IF ready
    THEN [res |-> ReadyErr(TimedOut), polledTimer |-> TRUE, reset |-> TRUE]
    ELSE [res |-> PollPending, polledTimer |-> TRUE, reset |-> FALSE]

\* TimeoutStream::poll_next, as a function of the inner poll and of the
\* timer's state: the result, whether the timer was polled, whether it was
\* reset.
Stream_poll_next_out(inner, ready) ==
    IF inner.k \in {"Ok", "Err"}
    THEN [res |-> MapErr(inner), polledTimer |-> FALSE, reset |-> TRUE]
    ELSE IF inner.k = "None"
    THEN [res |-> ReadyNone, polledTimer |-> FALSE, reset |-> TRUE]
    ELSE IF ready
    THEN [res |-> ReadyErr(TimedOut), polledTimer |-> TRUE, reset |-> TRUE]
    ELSE [res |-> PollPending, polledTimer |-> TRUE, reset |-> FALSE]

\* One poll of the stream; the inner stream yields at most MaxItems items.
Stream_poll_next ==
    /\ stm.st \in {"new", "open"}
    /\ \E inner \in StreamOutcomes :
         LET out == Stream_poll_next_out(inner, DelayReady(TD)) IN
         /\ inner.k \in {"Ok", "Err"} => stm.items < MaxItems
         /\ IF out.reset THEN DelayReset(TD, stm.dur)
            ELSE IF out.polledTimer THEN DelayPoll(TD)
            ELSE UNCHANGED <<delay, inbox, token>>
         /\ stm' = [stm EXCEPT
                      !.st = IF out.res.k = "None" THEN "ended" ELSE "open",
                      !.res = out.res, !.inner = inner,
                      !.polledTimer = out.polledTimer, !.pollNow = now,
                      !.atBefore = delay[TD].at,
                      !.clockBefore = stm.clock,
                      !.clock = IF out.res.k \in {"Ok", "Err"} THEN now ELSE @,
                      !.items = IF inner.k \in {"Ok", "Err"} THEN @ + 1 ELSE @,
                      !.timedOut = @ \/ out.res = ReadyErr(TimedOut)]
    /\ notified' = notified \ {TD}
    /\ UNCHANGED <<now, heap, nseq, fired, dpc, sleepUntil, done, hpc, tmo,
                   errv, early, owed, bad, rw>>

\* ------------------------------------------------ ext.rs: TimeoutError<E>
None == [some |-> FALSE, v |-> <<>>]
Some(x) == [some |-> TRUE, v |-> x]

\* E::source of an inner error: the next error of its chain.
ErrSource(e) == IF Len(e) > 1 THEN Some(Tail(e)) ELSE None

\* into_inner with the arms of its match exchanged.
into_inner_Swapped(te) == IF te.tag = "InnerError" THEN None ELSE Some(te.e)

\* TimeoutError::into_inner
into_inner(te) == IF te.tag = "TimedOut" THEN None ELSE Some(te.e)

\* Option::unwrap
OptionUnwrap(o) ==
    IF o.some THEN [panic |-> FALSE, v |-> o.v] ELSE [panic |-> TRUE, v |-> <<>>]

\* TimeoutError::unwrap: self.into_inner().unwrap()
unwrap(te) == OptionUnwrap(into_inner(te))

\* <TimeoutError<E> as Error>::source
source(te) == IF te.tag = "TimedOut" THEN None ELSE ErrSource(te.e)

TimeoutErrors == {TimedOut} \cup {InnerError(e) : e \in Errors}

NoErr == [st |-> "none", err |-> TimedOut, out |-> None, panic |-> FALSE]

\* A TimeoutError comes out of an adapter.
ErrMake ==
    /\ errv.st = "none"
    /\ \E te \in TimeoutErrors : errv' = [NoErr EXCEPT !.st = "made", !.err = te]
    /\ UNCHANGED <<now, delay, inbox, heap, nseq, fired, notified, dpc, token,
                   sleepUntil, done, hpc, tmo, stm, early, owed, bad, rw>>

Err_into_inner ==
    /\ errv.st = "made"
    /\ errv' = [errv EXCEPT !.st = "into_inner", !.out = into_inner(errv.err)]
    /\ UNCHANGED <<now, delay, inbox, heap, nseq, fired, notified, dpc, token,
                   sleepUntil, done, hpc, tmo, stm, early, owed, bad, rw>>

Err_unwrap ==
    /\ errv.st = "made"
    /\ errv' = [errv EXCEPT !.st = "unwrap",
                            !.out = IF unwrap(errv.err).panic THEN None
                                    ELSE Some(unwrap(errv.err).v),
                            !.panic = unwrap(errv.err).panic]
    /\ UNCHANGED <<now, delay, inbox, heap, nseq, fired, notified, dpc, token,
                   sleepUntil, done, hpc, tmo, stm, early, owed, bad, rw>>

Err_source ==
    /\ errv.st = "made"
    /\ errv' = [errv EXCEPT !.st = "source", !.out = source(errv.err)]
    /\ UNCHANGED <<now, delay, inbox, heap, nseq, fired, notified, dpc, token,
                   sleepUntil, done, hpc, tmo, stm, early, owed, bad, rw>>

\* ---------------------------------------------------------- specifications
Init ==
    /\ now = 0
    /\ delay = [id \in Ids |-> NoDelay]
    /\ inbox = <<>>
    /\ heap = {}
    /\ nseq = 0
    /\ fired = <<>>
    /\ notified = {}
    /\ dpc = "none"
    /\ token = FALSE
    /\ sleepUntil = NoTime
    /\ early = FALSE
    /\ done = FALSE
    /\ hpc = "none"
    /\ tmo = NoTimeout
    /\ stm = NoStream
    /\ errv = NoErr
    /\ rw = NoWake
    /\ bad = {}
    /\ owed = {}

\* The process-wide default engine: created once, then forgotten.
InitDefault ==
    /\ now = 0
    /\ delay = [id \in Ids |-> NoDelay]
    /\ inbox = <<>>
    /\ heap = {}
    /\ nseq = 0
    /\ fired = <<>>
    /\ notified = {}
    /\ dpc = "loop"
    /\ token = FALSE
    /\ sleepUntil = NoTime
    /\ early = FALSE
    /\ done = FALSE
    /\ hpc = "forgotten"
    /\ tmo = NoTimeout
    /\ stm = NoStream
    /\ errv = NoErr
    /\ rw = NoWake
    /\ bad = {}
    /\ owed = {}

\* An engine, its helper thread and the tasks that use Delays directly.
Next == Helper \/ Driver \/ Tick \/ TaskNew \/ TaskPoll

Spec == Init /\ [][Next]_vars

\* A Timeout future on the default engine.
NextTimeout == Timeout_new \/ Timeout_new_at \/ Timeout_poll \/ Driver \/ Tick

SpecTimeout == InitDefault /\ [][NextTimeout]_vars

\* The helper thread's steps other than a spurious return of park.
DriverFair ==
    \/ RunLoop \/ RunPoll \/ RunAdvance \/ RunNextEvent
    \/ ParkUnparked \/ ParkElapsed

\* A Timeout future whose inner future never completes, on a running engine:
\* time passes, the helper thread is scheduled, a woken task is polled.
NextTimeoutLive == Timeout_new \/ Timeout_repoll \/ Driver \/ Tick

SpecTimeoutLive ==
    /\ InitDefault
    /\ [][NextTimeoutLive]_vars
    /\ WF_vars(Tick)
    /\ WF_vars(DriverFair)
    /\ WF_vars(Timeout_repoll)

\* Tasks and the helper thread of the default engine, the hand-off of a
\* registration in its two steps.
NextWake == TaskNew \/ TaskPush \/ TaskUnpark \/ Driver \/ Tick

SpecWake == InitDefault /\ [][NextWake]_vars

\* The life of an engine: created, used by one task, forgotten or dropped.
NextLife == Helper \/ Driver \/ Tick \/ SoleTaskNew \/ SoleTaskPoll

SpecLife == Init /\ [][NextLife]_vars

\* The same, with both threads scheduled and time passing: the helper thread
\* keeps taking its steps (a park returns when unparked or timed out) and drop
\* runs through.
SpecLifeFair ==
    /\ Init
    /\ [][NextLife]_vars
    /\ WF_vars(DriverFair)
    /\ WF_vars(DropStore \/ DropUnpark \/ DropJoin)
    /\ WF_vars(Tick)

\* Tasks on the default engine, some with a wake signal that panics.
NextPanic == TaskNew \/ TaskNewPanicking \/ TaskPoll \/ Driver \/ Tick

SpecPanic == InitDefault /\ [][NextPanic]_vars

\* Tasks on the default engine, and one wake-up of the helper thread that
\* nothing called for.
NextRedundant == TaskNew \/ TaskPoll \/ RedundantUnpark \/ Driver \/ Tick

SpecRedundant == InitDefault /\ [][NextRedundant]_vars

\* A TimeoutStream on the default engine.
NextStream == Stream_timeout \/ Stream_poll_next \/ Driver \/ Tick

SpecStream == InitDefault /\ [][NextStream]_vars

\* The operations of TimeoutError.
NextErr == ErrMake \/ Err_into_inner \/ Err_unwrap \/ Err_source

SpecErr == Init /\ [][NextErr]_vars

\* ------------------------------------------------------------- the claims
TimeoutPolled == tmo.st \in {"pending", "done"}

\* C1: on a poll of Timeout where the inner future is ready, its result is
\* the poll's result (Ok(v) as it is, a failure e as Err(InnerError(e))),
\* also when the deadline has passed, and the timer is neither polled nor
\* armed by that poll.
C1_InnerWins ==
    (TimeoutPolled /\ tmo.inner.k # "Pending") =>
        /\ tmo.st = "done"
        /\ tmo.inner.k = "Ok" => tmo.res = ReadyOk(tmo.inner.v)
        /\ tmo.inner.k = "Err" =>
             /\ tmo.res.k = "Err"
             /\ tmo.res.e = [tag |-> "InnerError", e |-> tmo.inner.e]
        /\ ~tmo.polledTimer
        /\ delay[TD].armed = tmo.armedBefore

\* C1's case: the inner future succeeded on a poll made after the deadline.
C1_Witness ==
    /\ tmo.st = "done"
    /\ tmo.inner.k = "Ok"
    /\ delay[TD].at < tmo.pollNow
    /\ tmo.res.k = "Ok"

\* C2: Timeout resolves with TimedOut exactly on a poll where the inner
\* future is pending and the deadline is not after the time of the poll; it
\* is never pending at or after the deadline, and an inner failure is never
\* TimedOut nor a timeout an InnerError.
C2_TimedOutExactly ==
    TimeoutPolled =>
        /\ (tmo.res.k = "Err" /\ tmo.res.e.tag = "TimedOut") <=>
             (tmo.inner.k = "Pending" /\ delay[TD].at <= tmo.pollNow)
        /\ tmo.res.k = "Pending" => tmo.pollNow < delay[TD].at
        /\ (tmo.res.k = "Err" /\ tmo.res.e.tag = "InnerError") <=>
             tmo.inner.k = "Err"

\* C2's case: a poll at or after the deadline, with the inner future
\* pending, after a pending poll before the deadline armed the timer.
C2_Witness ==
    /\ tmo.st = "done"
    /\ tmo.res = ReadyErr(TimedOut)
    /\ tmo.armedBefore
    /\ delay[TD].at <= tmo.pollNow

\* C3: a Timeout whose inner future never completes, polled once and again
\* after every wake, eventually resolves with TimedOut, the helper thread
\* running and being scheduled.
C3_EventuallyTimedOut ==
    (tmo.st = "new") ~> (tmo.st = "done" /\ tmo.res = ReadyErr(TimedOut))

\* C3's case: the pending poll armed the timer, the helper thread fired it
\* at or after the deadline, and the next poll timed out.
C3_Witness ==
    /\ tmo.st = "done"
    /\ tmo.res = ReadyErr(TimedOut)
    /\ tmo.armedBefore
    /\ Len(fired) = 1
    /\ fired[1].id = TD

StreamPolled == stm.st \in {"open", "ended"}

\* C4: on a poll of TimeoutStream where the inner stream yields an item or
\* its end, that item (a failure e as InnerError(e)) or the end is the poll's
\* result, the timer is reset to now + dur and is not polled, also when its
\* deadline had passed.
C4_StreamInnerFirst ==
    (StreamPolled /\ stm.inner.k # "Pending") =>
        /\ stm.inner.k = "Ok" => stm.res = ReadyOk(stm.inner.v)
        /\ stm.inner.k = "Err" =>
             /\ stm.res.k = "Err"
             /\ stm.res.e = [tag |-> "InnerError", e |-> stm.inner.e]
        /\ stm.inner.k = "None" => stm.res.k = "None"
        /\ ~stm.polledTimer
        /\ delay[TD].at = stm.pollNow + stm.dur
        /\ ~delay[TD].armed

\* C4's case: the inner stream yielded an item on a poll made after the
\* timer's deadline.
C4_Witness ==
    /\ stm.st = "open"
    /\ stm.inner.k = "Ok"
    /\ stm.res.k = "Ok"
    /\ stm.atBefore < stm.pollNow

\* C5: when the timer is ready and the inner stream pending, the stream
\* yields Some(Err(TimedOut)), resets the timer to now + dur and stays open;
\* it ends only on a poll where the inner stream ended, and items that come
\* after a timeout are forwarded.
C5_TimeoutKeepsStream ==
    StreamPolled =>
        /\ (stm.inner.k = "Pending" /\ stm.atBefore <= stm.pollNow) =>
             /\ stm.res.k = "Err" /\ stm.res.e.tag = "TimedOut"
             /\ stm.st = "open"
             /\ delay[TD].at = stm.pollNow + stm.dur
        /\ stm.res.k = "None" <=> stm.inner.k = "None"
        /\ stm.st = "ended" <=> stm.inner.k = "None"
        /\ (stm.timedOut /\ stm.inner.k = "Ok") => stm.res = ReadyOk(stm.inner.v)

\* C5's case: an item forwarded after a timeout item.
C5_Witness ==
    /\ stm.timedOut
    /\ stm.st = "open"
    /\ stm.inner.k = "Ok"
    /\ stm.res.k = "Ok"

\* C6: with t the time the stream was made or last yielded an element (an
\* item or a timeout), no timeout is yielded before t + dur, and a poll at
\* or after t + dur with the inner stream pending yields the timeout.
C6_PerItemClock ==
    StreamPolled =>
        /\ (stm.res.k = "Err" /\ stm.res.e.tag = "TimedOut") =>
             stm.pollNow >= stm.clockBefore + stm.dur
        /\ (stm.inner.k = "Pending" /\ stm.pollNow >= stm.clockBefore + stm.dur) =>
             (stm.res.k = "Err" /\ stm.res.e.tag = "TimedOut")

\* C6's case: an item, then a stall; the timeout comes dur after the item,
\* later than dur after the construction.
C6_Witness ==
    /\ stm.res = ReadyErr(TimedOut)
    /\ stm.items = 1
    /\ stm.clockBefore > stm.created
    /\ stm.pollNow = stm.clockBefore + stm.dur
    /\ stm.pollNow > stm.created + stm.dur

\* C7, as claimed: every operation that recovers the inner failure from a
\* TimeoutError yields it for InnerError(e) and yields None, without
\* failing, for TimedOut.
C7_AllExtractionsChecked ==
    errv.st \in {"into_inner", "unwrap"} =>
        /\ ~errv.panic
        /\ errv.err.tag = "InnerError" => errv.out = [some |-> TRUE, v |-> errv.err.e]
        /\ errv.err.tag = "TimedOut" => errv.out = [some |-> FALSE, v |-> <<>>]

\* C7, amended: into_inner yields Some(e) for InnerError(e) and None for
\* TimedOut and never fails; unwrap yields e for InnerError(e) and panics
\* for TimedOut.
C7_IntoInnerChecked ==
    /\ errv.st = "into_inner" =>
         /\ ~errv.panic
         /\ errv.err.tag = "InnerError" =>
              errv.out = [some |-> TRUE, v |-> errv.err.e]
         /\ errv.err.tag = "TimedOut" => errv.out = [some |-> FALSE, v |-> <<>>]
    /\ errv.st = "unwrap" =>
         /\ errv.err.tag = "InnerError" =>
              ~errv.panic /\ errv.out = [some |-> TRUE, v |-> errv.err.e]
         /\ errv.err.tag = "TimedOut" => errv.panic

\* C7's case: unwrap of TimedOut has panicked.
C7_Witness ==
    /\ errv.st = "unwrap"
    /\ errv.err.tag = "TimedOut"
    /\ errv.panic

\* C8, as claimed: the source of InnerError(e) is e itself, and TimedOut has
\* no source.
C8_SourceIsInner ==
    errv.st = "source" =>
        /\ errv.err.tag = "InnerError" =>
             errv.out = [some |-> TRUE, v |-> errv.err.e]
        /\ errv.err.tag = "TimedOut" => errv.out = [some |-> FALSE, v |-> <<>>]

\* C9: every wake signal the helper thread has invoked was invoked with the
\* clock at or after the registration's deadline.
C9_NeverEarly ==
    \A i \in 1..Len(fired) : fired[i].at <= fired[i].time

\* C9's case: a registration fired after an unpark had ended a park_timeout
\* before its instant.
C9_Witness ==
    \E i \in 1..Len(fired) : fired[i].early /\ fired[i].at <= fired[i].time

NewWakes == {i \in 1..Len(fired') : i > Len(fired)}

\* C10: when the helper thread fires, of two live registrations of its store
\* with deadlines D1 < D2, D2's wake signal is invoked only after D1's has
\* been, in that same firing.
C10_DeadlineOrder ==
    [][\A a, b \in heap :
         (/\ Live(a) /\ Live(b) /\ a.at < b.at
          /\ \E j \in NewWakes : fired'[j].id = b.id)
         => \E i, j \in NewWakes :
              /\ i < j
              /\ fired'[i].id = a.id
              /\ fired'[j].id = b.id]_vars

\* C10's case: two registrations fired by one call, the earlier deadline
\* first although it was the later one to enter the store.
C10_Witness ==
    /\ Len(fired) = 2
    /\ fired[1].at < fired[2].at
    /\ fired[1].seq > fired[2].seq
    /\ fired[1].time = fired[2].time

WasFired(id) == \E i \in 1..Len(fired) : fired[i].id = id

\* C11: once a task has made its registration visible and woken the helper
\* thread, the helper thread is not suspended past that registration's
\* deadline: suspended with no unpark pending, it has drained the
\* registration and sleeps with a timeout that ends at or before the
\* deadline.
C11_NoMissedWake ==
    \A id \in Ids :
        (/\ delay[id].armed /\ id \notin owed /\ ~WasFired(id)
         /\ Parked /\ ~token)
        => /\ \A i \in 1..Len(inbox) : inbox[i].id # id
           /\ dpc = "park_timeout"
           /\ sleepUntil <= delay[id].at
           /\ \E e \in heap : e.id = id

\* C11's case: a registration submitted while the helper thread slept toward
\* a later deadline was fired at its own deadline, the later one still held.
C11_Witness ==
    /\ Len(fired) = 1
    /\ fired[1].early
    /\ fired[1].time = fired[1].at
    /\ \E e \in heap : e.seq < fired[1].seq /\ e.at > fired[1].at

\* A registration of the store whose deadline has passed and whose wake
\* signal is present.
Due(e) == Live(e) /\ e.at <= now

\* C12: the helper thread does not suspend over a due registration of the
\* store: when it starts to park none is left in the store, with the
\* earliest deadline not after now it goes back to the head of the loop
\* instead of parking, and a registration that becomes due during a
\* park_timeout finds the timeout elapsed.
C12_FiredBeforeSleep ==
    /\ []((Parked /\ \E e \in heap : Due(e))
          => (dpc = "park_timeout" /\ sleepUntil <= now))
    /\ [][/\ (~Parked /\ Parked') => (dpc = "next" /\ \A e \in heap : ~Due(e))
          /\ (dpc = "next" /\ dpc' # "next" /\ \E e \in heap : Due(e))
             => (dpc' = "loop" /\ heap' = heap)]_vars

\* C12's case: at the sleeping step with a registration that became due after
\* the firing step.
C12_Witness == dpc = "next" /\ fired # <<>> /\ \E e \in heap : Due(e)

\* C13: dropping a HelperThread that still has its join handle stores the
\* done flag, then unparks the helper thread, then joins it: the flag is set
\* when the unpark is issued, the unpark is issued before the join, and drop
\* returns only once the helper thread has left its loop.
C13_DropOrder ==
    /\ [](hpc \in {"drop_unpark", "drop_join", "dropped"} => done)
    /\ [](hpc = "dropped" => dpc = "exited")
    /\ [][(hpc = "drop_unpark" /\ hpc' # hpc)
          => (done /\ token' /\ hpc' = "drop_join")]_vars
    /\ [][(hpc' = "dropped" /\ hpc # "dropped")
          => (hpc = "drop_join" /\ dpc = "exited")]_vars

\* C13's case: a drop that has returned.
C13_Witness == hpc = "dropped" /\ done /\ dpc = "exited"

\* C14: once a drop with the join handle present has begun, the helper
\* thread leaves its loop and the join returns, wherever the helper thread
\* was when the drop began.
C14_TeardownTerminates ==
    (hpc = "drop_store") ~> (hpc = "dropped" /\ dpc = "exited")

\* C14's case: the join has returned although the helper thread had a
\* registration with a deadline still ahead.
C14_Witness ==
    /\ hpc = "dropped" /\ dpc = "exited"
    /\ \E e \in heap : e.at > now

\* C15: forget gives up the join handle and nothing else: it can be taken
\* whenever the HelperThread is owned, whatever the helper thread is doing,
\* it leaves the done flag, the park token and the helper thread untouched,
\* afterwards the flag stays clear and the helper thread never leaves its
\* loop, Delays can still be created from the handles, and a Delay
\* registered with the forgotten engine is still fired.
C15_ForgetKeepsRunning ==
    /\ [](hpc = "owned" => ENABLED HelperForget)
    /\ [](hpc = "forgotten" => (~done /\ dpc # "exited" /\ HasHandle))
    /\ [][(hpc' = "forgotten" /\ hpc # "forgotten")
          => (hpc = "owned" /\ UNCHANGED <<done, token, dpc, sleepUntil>>)]_vars
    /\ [][hpc = "forgotten" => hpc' = "forgotten"]_vars
    /\ ((hpc = "forgotten" /\ delay[TD].armed /\ delay[TD].at <= MaxTime)
        ~> WasFired(TD))

\* C15's case: a Delay fired by the helper thread of a forgotten engine.
C15_Witness == hpc = "forgotten" /\ WasFired(TD) /\ ~done /\ dpc # "exited"

\* C16: when the spawn fails, new returns the error and nothing of the
\* attempt is left: no HelperThread and no handle (no Delay can be created,
\* nothing can be forgotten or dropped), no helper thread running, and the
\* done flag and the timer of the attempt are never touched again.
C16_SpawnFailureLeavesNothing ==
    /\ [](hpc = "failed"
          => /\ dpc = "none" /\ ~HasHandle
             /\ ~done /\ ~token
             /\ inbox = <<>> /\ heap = {} /\ fired = <<>>
             /\ \A id \in Ids : ~delay[id].made
             /\ ~ENABLED (Helper \/ Driver \/ SoleTaskNew \/ SoleTaskPoll))
    /\ [][hpc = "failed"
          => UNCHANGED <<hpc, dpc, done, token, inbox, heap, fired, delay>>]_vars

\* C16's case: a failed spawn, time going on.
C16_Witness == hpc = "failed" /\ dpc = "none" /\ now > 0

C18_NoParkOnShutdown ==
    [][(dpc = "next" /\ done) => ~(Parked' /\ ~token')]_vars

\* C18, amended: each cycle of run() goes loop head, poll, advance,
\* next_event, then park, park_timeout or straight back to the loop head;
\* the done flag is read at the loop head only, which is the one place from
\* which run() returns, and the sleeping step parks whatever the flag says;
\* a helper thread parked with the flag set has drop's unpark pending or
\* about to be issued.
C18_FlagReadAtLoopHead ==
    /\ [][dpc' # dpc
          => /\ dpc = "loop" => dpc' \in {"poll", "exited"}
             /\ dpc = "poll" => dpc' = "advance"
             /\ dpc = "advance" => dpc' \in {"next", "panicked"}
             /\ dpc = "next" => dpc' \in {"park", "park_timeout", "loop"}
             /\ Parked => dpc' = "loop"]_vars
    /\ [][(dpc' = "exited" /\ dpc # "exited") => (dpc = "loop" /\ done)]_vars
    /\ [][(dpc = "next" /\ dpc' # dpc /\ ~\E e \in heap : e.at <= now)
          => Parked']_vars
    /\ []((Parked /\ done) => (token \/ hpc = "drop_unpark"))

\* C18's case: the helper thread suspended at the sleeping step with the
\* done flag already set.
C18_Witness == Parked /\ done /\ ~token /\ hpc = "drop_unpark"

\* Nothing has happened since the redundant wake-up that would give the
\* helper thread something to do: no time has passed, no intent was pushed.
StillRedundant ==
    rw.on /\ now = rw.now /\ nseq = rw.nseq /\ inbox = <<>> /\ ~done

\* C19: a wake-up of the helper thread that nothing called for changes
\* nothing: as long as nothing else happens, the store is as it was and no
\* wake signal has been invoked, the unpark makes park return once and not
\* again, and the helper thread parks again toward the same earliest
\* deadline.
C19_RedundantWakeIsNoOp ==
    StillRedundant
    => /\ heap = rw.heap
       /\ Len(fired) = rw.nfired
       /\ rw.iters <= 1
       /\ Parked => sleepUntil = rw.next
       /\ (Parked /\ ~token) => rw.iters = 1

\* C19's case: after the extra iteration, parked again toward the deadline.
C19_Witness ==
    /\ StillRedundant /\ rw.iters = 1
    /\ dpc = "park_timeout" /\ ~token /\ sleepUntil = rw.next

\* C20: the done flag starts false, is set only by the store of a drop that
\* found the join handle, and is never cleared; the helper thread leaves its
\* loop only with the flag set, and once it has left it does nothing more:
\* no step of run() is enabled, and the store and the log of invoked wake
\* signals stay as they are.
C20_DoneMonotonic ==
    /\ [](hpc \in {"none", "failed", "owned", "forgotten", "drop_store"}
          => ~done)
    /\ [][done => done']_vars
    /\ [][(done' /\ ~done) => (hpc = "drop_store" /\ hpc' = "drop_unpark")]_vars
    /\ [](dpc = "exited" => done)
    /\ [][(dpc' = "exited" /\ dpc # "exited") => (dpc = "loop" /\ done)]_vars
    /\ [][dpc = "exited"
          => UNCHANGED <<dpc, heap, nseq, fired, sleepUntil>>]_vars
    /\ [](dpc = "exited" => ~ENABLED Driver)

\* C20's case: the helper thread has left its loop, intents still arriving.
C20_Witness == dpc = "exited" /\ done /\ inbox # <<>>

=============================================================================
